---- MODULE Spec2Model ----
(***************************************************************************)
(* Model of the two example clients of usgs/nshmp-haz:                     *)
(*   src/etc/python/gmmBatchExample.py  (HTTP POST batch client)           *)
(*   src/etc/python/gmmExample.py       (in-process client through JPype)  *)
(* A run executes one of the two scripts, statement by statement.  The     *)
(* file system, the web service and the Java library are the environment:  *)
(* their answers are drawn from bounded sets.                              *)
(***************************************************************************)
EXTENDS Integers, Sequences, FiniteSets, TLC

VARIABLES
    script,       \* which script this run executes: "batch" or "inproc"
    pc,           \* the statement about to execute, or "done" / "exited" / "raised"
    exc,          \* the uncaught exception that ended the run ("" when none)
    exitCode,     \* the process exit status (-1 while running)
    bound,        \* the names bound so far in the script's namespace
    \* ---- environment of the batch client
    fileExists,   \* whether gmm-inputs.csv exists
    csv,          \* the content of gmm-inputs.csv: header record, then value records
    posts,        \* the HTTP POST requests issued so far
    \* ---- variables of gmmBatchExample.py
    inputs, svcResponse, response, request, gmms, input,
    means, sigmas, data, xMeans, yMeans, xSigmas, ySigmas,
    ri, mi, si,   \* positions of the three for-loops' iterators
    \* ---- environment and variables of gmmExample.py
    calls,        \* the calls made through the bridge, in order
    hazMat, gmmparams, ln_med_gm, sigma, spectrumResult, pds, i, printed

batchVars == <<fileExists, csv, posts, inputs, svcResponse, response, request,
               gmms, input, means, sigmas, data, xMeans, yMeans, xSigmas,
               ySigmas, ri, mi, si>>
inprocVars == <<calls, hazMat, gmmparams, ln_med_gm, sigma, spectrumResult,
                pds, i, printed>>
vars == <<script, pc, exc, exitCode, bound, fileExists, csv, posts, inputs,
          svcResponse, response, request, gmms, input, means, sigmas, data,
          xMeans, yMeans, xSigmas, ySigmas, ri, mi, si, calls, hazMat,
          gmmparams, ln_med_gm, sigma, spectrumResult, pds, i, printed>>

(***************************************************************************)
(* Bounds of the model.                                                    *)
(***************************************************************************)
MaxRows == 2      \* value records in the CSV file, per-row results in a reply
MaxPeriods == 2   \* points of one series / of one spectrum

(***************************************************************************)
(* Python built-ins used by the scripts.                                   *)
(***************************************************************************)
\* d[k] raises KeyError unless k is a key of the dict d
HasKey(d, k) == k \in DOMAIN d

\* the attributes of a dict object: its methods, never its keys
DictAttrs == {"keys", "values", "items", "get", "pop", "update"}
hasattr(obj, name) == name \in DictAttrs

\* ~b on a bool is the integer bitwise inversion: ~False = -1, ~True = -2
Invert(b) == IF b THEN -2 ELSE -1
\* truth value of an integer
Truthy(n) == n # 0

\* the run ends with an uncaught exception: traceback, exit status 1
Raise(e) == /\ pc' = "raised"
            /\ exc' = e
            /\ exitCode' = 1

\* the run continues at statement p
Goto(p) == /\ pc' = p
           /\ UNCHANGED <<exc, exitCode>>

(***************************************************************************)
(* gmmBatchExample.py: the environment.                                    *)
(***************************************************************************)
\* header record of the CSV file: the GMM input fields it names
Header == <<"dip", "vs30">>
\* value records the file may hold: one as wide as the header carrying the
\* 'null' token, one with fewer columns than the header
ValueRecords == {<<"0.0", "null">>, <<"45.0">>}

RECURSIVE SeqsUpTo(_, _)
SeqsUpTo(S, n) ==
    IF n = 0 THEN {<<>>}
    ELSE LET shorter == SeqsUpTo(S, n - 1)
         IN shorter \cup {Append(q, x) : q \in shorter, x \in S}

\* the contents gmm-inputs.csv may have
CsvFiles == {<<Header>> \o rows : rows \in SeqsUpTo(ValueRecords, MaxRows)}

\* the value records of a CSV content
ValueRows(content) == Tail(content)
\* a value record whose column count differs from the header's
Malformed(content) ==
    \E k \in 2..Len(content) : Len(content[k]) # Len(content[1])

\* lines 36-42
host == "http://localhost:8080"
service == "/nshmp-haz-ws/gmm/spectra"
url == <<host, service>>
query == [gmm |-> <<"AB_06_PRIME", "CAMPBELL_03", "FRANKEL_96">>]

\* One series of a result section, as the service lays it out: the periods
\* ascending and as many values as periods.
ServiceSeries(section, row, model, np) ==
    [label |-> model,
     data |-> [xs |-> [k \in 1..np |-> k],
               ys |-> [k \in 1..np |-> <<section, row, model, k>>]]]

\* The models do not all support the same periods: of np periods, every
\* second model of the selection supports one fewer.
ModelPeriods(m, np) == IF m % 2 = 1 \/ np = 0 THEN np ELSE np - 1

\* One section ('means' or 'sigmas') of a per-row result: one series per
\* requested model.
ServiceSection(section, row, params, np) ==
    [data |-> [m \in 1..Len(params.gmm) |->
                  ServiceSeries(section, row, params.gmm[m], ModelPeriods(m, np))]]

\* The shapes a per-row result may have: complete, or lacking one field.
Shapes == {"full", "noRequest", "noMeans", "noSigmas"}

ServiceResult(row, shape, params, np) ==
    LET req == [gmms |-> params.gmm, input |-> <<"input", row>>]
        mns == ServiceSection("means", row, params, np)
        sgs == ServiceSection("sigmas", row, params, np)
    IN  CASE shape = "full"      -> [request |-> req, means |-> mns, sigmas |-> sgs]
          [] shape = "noRequest" -> [means |-> mns, sigmas |-> sgs]
          [] shape = "noMeans"   -> [request |-> req, sigmas |-> sgs]
          [] shape = "noSigmas"  -> [request |-> req, means |-> mns]

\* The JSON objects the POST may decode to: an object without 'status', a
\* status without 'response' (the usage and error replies), or a status with
\* an array of per-row results.
ServiceReplies(params) ==
    {<<>>}
    \cup {[status |-> s] : s \in {"usage", "error", "success"}}
    \cup UNION {
            {[status |-> s,
              response |-> [r \in 1..n |-> ServiceResult(r, sh[r], params, np)]] :
                s \in {"error", "success"},
                sh \in [1..n -> Shapes],
                np \in 0..MaxPeriods} :
            n \in 0..MaxRows}

(***************************************************************************)
(* gmmBatchExample.py: the statements.                                     *)
(***************************************************************************)
BatchStep == script = "batch"

\* line 22: file = open('gmm-inputs.csv', 'r')
OpenFile ==
    /\ BatchStep /\ pc = "open"
    /\ IF fileExists
         THEN Goto("read") /\ bound' = bound \cup {"file"}
         ELSE Raise("FileNotFoundError") /\ UNCHANGED bound
    /\ UNCHANGED <<script, batchVars, inprocVars>>

\* Variant of line 24: the records are checked against the header
ReadFileValidating ==
    /\ BatchStep /\ pc = "read"
    /\ IF Malformed(csv)
         THEN /\ Raise("InputFormatError")
              /\ UNCHANGED <<inputs, bound>>
         ELSE /\ inputs' = csv
              /\ bound' = bound \cup {"inputs"}
              /\ Goto("close")
    /\ UNCHANGED <<script, fileExists, csv, posts, svcResponse, response,
                   request, gmms, input, means, sigmas, data, xMeans, yMeans,
                   xSigmas, ySigmas, ri, mi, si, inprocVars>>

\* Variant of line 24: 'null' tokens are replaced by a default on the client
ReadFileDefaults ==
    /\ BatchStep /\ pc = "read"
    /\ inputs' = [r \in 1..Len(csv) |->
                    [c \in 1..Len(csv[r]) |->
                        IF csv[r][c] = "null" THEN "760" ELSE csv[r][c]]]
    /\ bound' = bound \cup {"inputs"}
    /\ Goto("close")
    /\ UNCHANGED <<script, fileExists, csv, posts, svcResponse, response,
                   request, gmms, input, means, sigmas, data, xMeans, yMeans,
                   xSigmas, ySigmas, ri, mi, si, inprocVars>>

\* line 24: inputs = file.read()
ReadFile ==
    /\ BatchStep /\ pc = "read"
    /\ inputs' = csv
    /\ bound' = bound \cup {"inputs"}
    /\ Goto("close")
    /\ UNCHANGED <<script, fileExists, csv, posts, svcResponse, response,
                   request, gmms, input, means, sigmas, data, xMeans, yMeans,
                   xSigmas, ySigmas, ri, mi, si, inprocVars>>

\* lines 26-42: file.close(); host, service, url and query are bound
CloseFile ==
    /\ BatchStep /\ pc = "close"
    /\ bound' = bound \cup {"host", "service", "url", "query"}
    /\ Goto("post")
    /\ UNCHANGED <<script, batchVars, inprocVars>>

\* the request that requests.post(url, data = inputs, params = query) sends
PostRequest == [url |-> url, data |-> inputs, params |-> query]

\* Variant of the POST: a failed attempt is followed by one more
PostTransportErrorRetry ==
    /\ BatchStep /\ pc = "post"
    /\ posts' = Append(posts, PostRequest)
    /\ IF posts = <<>> THEN Goto("post") ELSE Raise("ConnectionError")
    /\ UNCHANGED <<script, bound, fileExists, csv, inputs, svcResponse,
                   response, request, gmms, input, means, sigmas, data,
                   xMeans, yMeans, xSigmas, ySigmas, ri, mi, si, inprocVars>>

\* line 51, the POST cannot be completed: requests raises ConnectionError
PostTransportError ==
    /\ BatchStep /\ pc = "post"
    /\ posts' = Append(posts, PostRequest)
    /\ Raise("ConnectionError")
    /\ UNCHANGED <<script, bound, fileExists, csv, inputs, svcResponse,
                   response, request, gmms, input, means, sigmas, data,
                   xMeans, yMeans, xSigmas, ySigmas, ri, mi, si, inprocVars>>

\* line 51, the body of the reply is not JSON: .json() raises
PostUndecodable ==
    /\ BatchStep /\ pc = "post"
    /\ posts' = Append(posts, PostRequest)
    /\ Raise("JSONDecodeError")
    /\ UNCHANGED <<script, bound, fileExists, csv, inputs, svcResponse,
                   response, request, gmms, input, means, sigmas, data,
                   xMeans, yMeans, xSigmas, ySigmas, ri, mi, si, inprocVars>>

\* line 51: svcResponse = requests.post(...).json()
PostDecoded ==
    /\ BatchStep /\ pc = "post"
    /\ posts' = Append(posts, PostRequest)
    /\ \E reply \in ServiceReplies(PostRequest.params) : svcResponse' = reply
    /\ bound' = bound \cup {"svcResponse"}
    /\ Goto("check")
    /\ UNCHANGED <<script, fileExists, csv, inputs, response, request, gmms,
                   input, means, sigmas, data, xMeans, yMeans, xSigmas,
                   ySigmas, ri, mi, si, inprocVars>>

\* Variant of the check: the existence of the key 'response' is what is tested
ErrorCheckKeyTest(resp) ==
    resp.status = "error" /\ ~HasKey(resp, "response")

\* line 61: the condition of the if, once svcResponse['status'] is read
ErrorCheck(resp) ==
    resp.status = "error" /\ Truthy(Invert(hasattr(resp, "response")))

\* lines 61-62: if <condition>: exit()
CheckResponse ==
    /\ BatchStep /\ pc = "check"
    /\ IF ~HasKey(svcResponse, "status")
         THEN Raise("KeyError")
         ELSE IF ErrorCheck(svcResponse)
                THEN pc' = "exited" /\ exitCode' = 0 /\ UNCHANGED exc
                ELSE Goto("iter")
    /\ UNCHANGED <<script, bound, batchVars, inprocVars>>

\* line 69: the iterable svcResponse['response'] is evaluated
IterResponse ==
    /\ BatchStep /\ pc = "iter"
    /\ IF HasKey(svcResponse, "response")
         THEN Goto("for") /\ ri' = 0
         ELSE Raise("KeyError") /\ UNCHANGED ri
    /\ UNCHANGED <<script, bound, fileExists, csv, posts, inputs, svcResponse,
                   response, request, gmms, input, means, sigmas, data,
                   xMeans, yMeans, xSigmas, ySigmas, mi, si, inprocVars>>

\* Variant of the loop: the last per-row result is not visited
ForResponseDropsLast ==
    /\ BatchStep /\ pc = "for"
    /\ IF ri + 1 < Len(svcResponse.response)
         THEN /\ ri' = ri + 1
              /\ response' = svcResponse.response[ri + 1]
              /\ bound' = bound \cup {"response"}
              /\ Goto("request")
         ELSE /\ pc' = "done" /\ exitCode' = 0
              /\ UNCHANGED <<exc, ri, response, bound>>
    /\ UNCHANGED <<script, fileExists, csv, posts, inputs, svcResponse,
                   request, gmms, input, means, sigmas, data, xMeans, yMeans,
                   xSigmas, ySigmas, mi, si, inprocVars>>

\* line 69: for response in ...: the next per-row result, or the loop ends
ForResponse ==
    /\ BatchStep /\ pc = "for"
    /\ IF ri < Len(svcResponse.response)
         THEN /\ ri' = ri + 1
              /\ response' = svcResponse.response[ri + 1]
              /\ bound' = bound \cup {"response"}
              /\ Goto("request")
         ELSE /\ pc' = "done" /\ exitCode' = 0
              /\ UNCHANGED <<exc, ri, response, bound>>
    /\ UNCHANGED <<script, fileExists, csv, posts, inputs, svcResponse,
                   request, gmms, input, means, sigmas, data, xMeans, yMeans,
                   xSigmas, ySigmas, mi, si, inprocVars>>

\* line 72: request = response['request']
GetRequest ==
    /\ BatchStep /\ pc = "request"
    /\ IF HasKey(response, "request")
         THEN /\ request' = response.request
              /\ bound' = bound \cup {"request"}
              /\ Goto("gmms")
         ELSE Raise("KeyError") /\ UNCHANGED <<request, bound>>
    /\ UNCHANGED <<script, fileExists, csv, posts, inputs, svcResponse,
                   response, gmms, input, means, sigmas, data, xMeans, yMeans,
                   xSigmas, ySigmas, ri, mi, si, inprocVars>>

\* line 75: gmms = request['gmms']
GetGmms ==
    /\ BatchStep /\ pc = "gmms"
    /\ gmms' = request.gmms
    /\ bound' = bound \cup {"gmms"}
    /\ Goto("input")
    /\ UNCHANGED <<script, fileExists, csv, posts, inputs, svcResponse,
                   response, request, input, means, sigmas, data, xMeans,
                   yMeans, xSigmas, ySigmas, ri, mi, si, inprocVars>>

\* line 78: input = request['input']
GetInput ==
    /\ BatchStep /\ pc = "input"
    /\ input' = request.input
    /\ bound' = bound \cup {"input"}
    /\ Goto("meansIter")
    /\ UNCHANGED <<script, fileExists, csv, posts, inputs, svcResponse,
                   response, request, gmms, means, sigmas, data, xMeans,
                   yMeans, xSigmas, ySigmas, ri, mi, si, inprocVars>>

\* line 81: the iterable response['means']['data'] is evaluated
IterMeans ==
    /\ BatchStep /\ pc = "meansIter"
    /\ IF HasKey(response, "means")
         THEN Goto("meansFor") /\ mi' = 0
         ELSE Raise("KeyError") /\ UNCHANGED mi
    /\ UNCHANGED <<script, bound, fileExists, csv, posts, inputs, svcResponse,
                   response, request, gmms, input, means, sigmas, data,
                   xMeans, yMeans, xSigmas, ySigmas, ri, si, inprocVars>>

\* Variant of line 81: the loop is left after the first series
ForMeansFirstOnly ==
    /\ BatchStep /\ pc = "meansFor"
    /\ IF mi < Len(response.means.data) /\ mi < 1
         THEN /\ mi' = mi + 1
              /\ means' = response.means.data[mi + 1]
              /\ bound' = bound \cup {"means"}
              /\ Goto("meansData")
         ELSE /\ Goto("sigmasIter")
              /\ UNCHANGED <<mi, means, bound>>
    /\ UNCHANGED <<script, fileExists, csv, posts, inputs, svcResponse,
                   response, request, gmms, input, sigmas, data, xMeans,
                   yMeans, xSigmas, ySigmas, ri, si, inprocVars>>

\* line 81: for means in ...: the next series, or on to the sigmas
ForMeans ==
    /\ BatchStep /\ pc = "meansFor"
    /\ IF mi < Len(response.means.data)
         THEN /\ mi' = mi + 1
              /\ means' = response.means.data[mi + 1]
              /\ bound' = bound \cup {"means"}
              /\ Goto("meansData")
         ELSE /\ Goto("sigmasIter")
              /\ UNCHANGED <<mi, means, bound>>
    /\ UNCHANGED <<script, fileExists, csv, posts, inputs, svcResponse,
                   response, request, gmms, input, sigmas, data, xMeans,
                   yMeans, xSigmas, ySigmas, ri, si, inprocVars>>

\* line 82: data = means['data']
MeansData ==
    /\ BatchStep /\ pc = "meansData"
    /\ data' = means.data
    /\ bound' = bound \cup {"data"}
    /\ Goto("meansXs")
    /\ UNCHANGED <<script, fileExists, csv, posts, inputs, svcResponse,
                   response, request, gmms, input, means, sigmas, xMeans,
                   yMeans, xSigmas, ySigmas, ri, mi, si, inprocVars>>

\* line 83: xMeans = data['xs']
MeansXs ==
    /\ BatchStep /\ pc = "meansXs"
    /\ xMeans' = data.xs
    /\ bound' = bound \cup {"xMeans"}
    /\ Goto("meansYs")
    /\ UNCHANGED <<script, fileExists, csv, posts, inputs, svcResponse,
                   response, request, gmms, input, means, sigmas, data,
                   yMeans, xSigmas, ySigmas, ri, mi, si, inprocVars>>

\* line 84: yMeans = data['ys']
MeansYs ==
    /\ BatchStep /\ pc = "meansYs"
    /\ yMeans' = data.ys
    /\ bound' = bound \cup {"yMeans"}
    /\ Goto("meansFor")
    /\ UNCHANGED <<script, fileExists, csv, posts, inputs, svcResponse,
                   response, request, gmms, input, means, sigmas, data,
                   xMeans, xSigmas, ySigmas, ri, mi, si, inprocVars>>

\* Variant of line 87: a missing 'sigmas' section is taken to be empty
IterSigmasDefault ==
    /\ BatchStep /\ pc = "sigmasIter"
    /\ IF HasKey(response, "sigmas")
         THEN Goto("sigmasFor") /\ si' = 0
         ELSE Goto("for") /\ UNCHANGED si
    /\ UNCHANGED <<script, bound, fileExists, csv, posts, inputs, svcResponse,
                   response, request, gmms, input, means, sigmas, data,
                   xMeans, yMeans, xSigmas, ySigmas, ri, mi, inprocVars>>

\* line 87: the iterable response['sigmas']['data'] is evaluated
IterSigmas ==
    /\ BatchStep /\ pc = "sigmasIter"
    /\ IF HasKey(response, "sigmas")
         THEN Goto("sigmasFor") /\ si' = 0
         ELSE Raise("KeyError") /\ UNCHANGED si
    /\ UNCHANGED <<script, bound, fileExists, csv, posts, inputs, svcResponse,
                   response, request, gmms, input, means, sigmas, data,
                   xMeans, yMeans, xSigmas, ySigmas, ri, mi, inprocVars>>

\* line 87: for sigmas in ...: the next series, or back to line 69
ForSigmas ==
    /\ BatchStep /\ pc = "sigmasFor"
    /\ IF si < Len(response.sigmas.data)
         THEN /\ si' = si + 1
              /\ sigmas' = response.sigmas.data[si + 1]
              /\ bound' = bound \cup {"sigmas"}
              /\ Goto("sigmasData")
         ELSE /\ Goto("for")
              /\ UNCHANGED <<si, sigmas, bound>>
    /\ UNCHANGED <<script, fileExists, csv, posts, inputs, svcResponse,
                   response, request, gmms, input, means, data, xMeans,
                   yMeans, xSigmas, ySigmas, ri, mi, inprocVars>>

\* line 88: data = sigmas['data']
SigmasData ==
    /\ BatchStep /\ pc = "sigmasData"
    /\ data' = sigmas.data
    /\ bound' = bound \cup {"data"}
    /\ Goto("sigmasXs")
    /\ UNCHANGED <<script, fileExists, csv, posts, inputs, svcResponse,
                   response, request, gmms, input, means, sigmas, xMeans,
                   yMeans, xSigmas, ySigmas, ri, mi, si, inprocVars>>

\* line 89: xSigmas = data['xs']
SigmasXs ==
    /\ BatchStep /\ pc = "sigmasXs"
    /\ xSigmas' = data.xs
    /\ bound' = bound \cup {"xSigmas"}
    /\ Goto("sigmasYs")
    /\ UNCHANGED <<script, fileExists, csv, posts, inputs, svcResponse,
                   response, request, gmms, input, means, sigmas, data,
                   xMeans, yMeans, ySigmas, ri, mi, si, inprocVars>>

\* line 90: ySigmas = data['ys']
SigmasYs ==
    /\ BatchStep /\ pc = "sigmasYs"
    /\ ySigmas' = data.ys
    /\ bound' = bound \cup {"ySigmas"}
    /\ Goto("sigmasFor")
    /\ UNCHANGED <<script, fileExists, csv, posts, inputs, svcResponse,
                   response, request, gmms, input, means, sigmas, data,
                   xMeans, yMeans, xSigmas, ri, mi, si, inprocVars>>

BatchNext ==
    \/ OpenFile \/ ReadFile \/ CloseFile
    \/ PostTransportError \/ PostUndecodable \/ PostDecoded
    \/ CheckResponse \/ IterResponse \/ ForResponse
    \/ GetRequest \/ GetGmms \/ GetInput
    \/ IterMeans \/ ForMeans \/ MeansData \/ MeansXs \/ MeansYs
    \/ IterSigmas \/ ForSigmas \/ SigmasData \/ SigmasXs \/ SigmasYs

(***************************************************************************)
(* gmmExample.py: the environment (the JVM and the nshmp-haz library).     *)
(***************************************************************************)
\* line 13
classpath == "/path/to/repository/nshmp-haz-master/build/libs/nshmp-haz.jar"
\* lines 51 and 55
gmm == "ASK_14"
imt == "PGA"

\* lines 35-47: the fields set on the GmmParams object
ParamFields ==
    [Mw |-> "6.5", rJB |-> "5.0", rRup |-> "5.1", rX |-> "5.1",
     dip |-> "90.0", width |-> "10.0", zTop |-> "1.0", zHyp |-> "6.0",
     rake |-> "0.0", vs30 |-> "760.", vsInf |-> "True",
     z2p5 |-> "nan", z1p0 |-> "nan"]

\* HazMat.gmmMean: the pair [ln(median ground motion), sigma]
HazMatMean(model, measure, params) ==
    <<(<<"lnMean", model, measure>>), (<<"sigma", model, measure>>)>>

\* HazMat.gmmSpectrum: parallel arrays of periods, means and sigmas
HazMatSpectrum(model, params, np) ==
    [periods |-> [k \in 1..np |-> k],
     means   |-> [k \in 1..np |-> <<"mean", model, k>>],
     sigmas  |-> [k \in 1..np |-> <<"sigma", model, k>>]]

(***************************************************************************)
(* gmmExample.py: the statements.                                          *)
(***************************************************************************)
InprocStep == script = "inproc"

\* lines 13-20: classpath is bound, the JVM starts, the package is named
StartJVM ==
    /\ InprocStep /\ pc = "startJVM"
    /\ calls' = Append(calls, [op |-> "startJVM", arg |-> classpath])
    /\ bound' = bound \cup {"classpath", "nshmp"}
    /\ Goto("init")
    /\ UNCHANGED <<script, batchVars, hazMat, gmmparams, ln_med_gm, sigma,
                   spectrumResult, pds, i, printed>>

\* line 16, the JVM cannot be started
StartJVMFails ==
    /\ InprocStep /\ pc = "startJVM"
    /\ calls' = Append(calls, [op |-> "startJVM", arg |-> classpath])
    /\ bound' = bound \cup {"classpath"}
    /\ Raise("RuntimeError")
    /\ UNCHANGED <<script, batchVars, hazMat, gmmparams, ln_med_gm, sigma,
                   spectrumResult, pds, i, printed>>

\* the calculator instances created so far
Instances == {c.inst : c \in {calls[k] : k \in {j \in 1..Len(calls) : calls[j].op = "init"}}}

\* line 26: hazMat = nshmp.HazMat.init(classpath)
InitHazMat ==
    /\ InprocStep /\ pc = "init"
    /\ hazMat' = Cardinality(Instances) + 1
    /\ calls' = Append(calls, [op |-> "init", arg |-> classpath, inst |-> hazMat'])
    /\ bound' = bound \cup {"hazMat"}
    /\ Goto("params")
    /\ UNCHANGED <<script, batchVars, gmmparams, ln_med_gm, sigma,
                   spectrumResult, pds, i, printed>>

\* line 26, the library is not at classpath: the call raises
InitHazMatFails ==
    /\ InprocStep /\ pc = "init"
    /\ Raise("TypeError")
    /\ UNCHANGED <<script, bound, batchVars, inprocVars>>

\* lines 34-55: gmmparams = nshmp.GmmParams(), its fields, gmm and imt
SetParams ==
    /\ InprocStep /\ pc = "params"
    /\ gmmparams' = ParamFields
    /\ bound' = bound \cup {"gmmparams", "gmm", "imt"}
    /\ Goto("gmmMean")
    /\ UNCHANGED <<script, batchVars, calls, hazMat, ln_med_gm, sigma,
                   spectrumResult, pds, i, printed>>

\* lines 59-62: ln_med_gm, sigma = hazMat.gmmMean(gmm, imt, gmmparams); prints
CallMean ==
    /\ InprocStep /\ pc = "gmmMean"
    /\ calls' = Append(calls, [op |-> "gmmMean", inst |-> hazMat, gmm |-> gmm,
                               imt |-> imt, params |-> gmmparams])
    /\ LET r == HazMatMean(gmm, imt, gmmparams)
       IN  /\ ln_med_gm' = r[1]
           /\ sigma' = r[2]
           /\ printed' = printed \o
                 <<[kind |-> "text", val |-> "ln(median ground motion), sigma:"],
                   [kind |-> "pair", val |-> <<r[1], r[2]>>]>>
    /\ bound' = bound \cup {"ln_med_gm", "sigma"}
    /\ Goto("gmmSpectrum")
    /\ UNCHANGED <<script, batchVars, hazMat, gmmparams, spectrumResult,
                   pds, i>>

\* line 59, the library throws: the Java exception surfaces
CallMeanFails ==
    /\ InprocStep /\ pc = "gmmMean"
    /\ calls' = Append(calls, [op |-> "gmmMean", inst |-> hazMat, gmm |-> gmm,
                               imt |-> imt, params |-> gmmparams])
    /\ Raise("JavaException")
    /\ UNCHANGED <<script, bound, batchVars, hazMat, gmmparams, ln_med_gm,
                   sigma, spectrumResult, pds, i, printed>>

\* Variant of line 71: the calculator is initialised again for the spectrum
CallSpectrumReinit ==
    /\ InprocStep /\ pc = "gmmSpectrum"
    /\ hazMat' = Cardinality(Instances) + 1
    /\ calls' = calls \o
          <<[op |-> "init", arg |-> classpath, inst |-> hazMat'],
            [op |-> "gmmSpectrum", inst |-> hazMat', gmm |-> gmm,
             params |-> gmmparams]>>
    /\ \E np \in 0..MaxPeriods :
          spectrumResult' = HazMatSpectrum(gmm, gmmparams, np)
    /\ pds' = spectrumResult'.periods
    /\ means' = spectrumResult'.means
    /\ sigmas' = spectrumResult'.sigmas
    /\ printed' = Append(printed, [kind |-> "text", val |-> "period, mean, sigma:"])
    /\ bound' = bound \cup {"spectrumResult", "pds", "means", "sigmas"}
    /\ Goto("printFor")
    /\ UNCHANGED <<script, fileExists, csv, posts, inputs, svcResponse,
                   response, request, gmms, input, data, xMeans, yMeans,
                   xSigmas, ySigmas, ri, mi, si, gmmparams, ln_med_gm,
                   sigma, i>>

\* lines 71-75: spectrumResult = hazMat.gmmSpectrum(gmm, gmmparams); the
\* three arrays are converted; the heading is printed
CallSpectrum ==
    /\ InprocStep /\ pc = "gmmSpectrum"
    /\ calls' = Append(calls, [op |-> "gmmSpectrum", inst |-> hazMat,
                               gmm |-> gmm, params |-> gmmparams])
    /\ \E np \in 0..MaxPeriods :
          spectrumResult' = HazMatSpectrum(gmm, gmmparams, np)
    /\ pds' = spectrumResult'.periods
    /\ means' = spectrumResult'.means
    /\ sigmas' = spectrumResult'.sigmas
    /\ printed' = Append(printed, [kind |-> "text", val |-> "period, mean, sigma:"])
    /\ bound' = bound \cup {"spectrumResult", "pds", "means", "sigmas"}
    /\ Goto("printFor")
    /\ UNCHANGED <<script, fileExists, csv, posts, inputs, svcResponse,
                   response, request, gmms, input, data, xMeans, yMeans,
                   xSigmas, ySigmas, ri, mi, si, hazMat, gmmparams,
                   ln_med_gm, sigma, i>>

\* line 71, the library throws
CallSpectrumFails ==
    /\ InprocStep /\ pc = "gmmSpectrum"
    /\ calls' = Append(calls, [op |-> "gmmSpectrum", inst |-> hazMat,
                               gmm |-> gmm, params |-> gmmparams])
    /\ Raise("JavaException")
    /\ UNCHANGED <<script, bound, batchVars, hazMat, gmmparams, ln_med_gm,
                   sigma, spectrumResult, pds, i, printed>>

\* the values range(n) yields after the value `last` (none yet: unbound)
RangeNext(n, started, last) ==
    LET nxt == IF started THEN last + 1 ELSE 0
    IN  IF nxt < n THEN {nxt} ELSE {}

\* line 76: for i in range(len(pds)): the next index, or the script ends
ForPrint ==
    /\ InprocStep /\ pc = "printFor"
    /\ LET nxt == RangeNext(Len(pds), "i" \in bound, i)
       IN  IF nxt # {}
             THEN /\ i' \in nxt
                  /\ bound' = bound \cup {"i"}
                  /\ Goto("print")
             ELSE /\ pc' = "done" /\ exitCode' = 0
                  /\ UNCHANGED <<exc, i, bound>>
    /\ UNCHANGED <<script, batchVars, calls, hazMat, gmmparams, ln_med_gm,
                   sigma, spectrumResult, pds, printed>>

\* Variant of line 77: means and sigmas are indexed one past the period
PrintTripleShifted ==
    /\ InprocStep /\ pc = "print"
    /\ IF i + 2 <= Len(means) /\ i + 2 <= Len(sigmas)
         THEN /\ printed' = Append(printed,
                    [kind |-> "triple", idx |-> i,
                     val |-> <<pds[i + 1], means[i + 2], sigmas[i + 2]>>])
              /\ Goto("printFor")
         ELSE Raise("IndexError") /\ UNCHANGED printed
    /\ UNCHANGED <<script, bound, batchVars, calls, hazMat, gmmparams,
                   ln_med_gm, sigma, spectrumResult, pds, i>>

\* line 77: print(pds[i], means[i], sigmas[i]); Python indexes from 0
PrintTriple ==
    /\ InprocStep /\ pc = "print"
    /\ IF i + 1 <= Len(means) /\ i + 1 <= Len(sigmas)
         THEN /\ printed' = Append(printed,
                    [kind |-> "triple", idx |-> i,
                     val |-> <<pds[i + 1], means[i + 1], sigmas[i + 1]>>])
              /\ Goto("printFor")
         ELSE Raise("IndexError") /\ UNCHANGED printed
    /\ UNCHANGED <<script, bound, batchVars, calls, hazMat, gmmparams,
                   ln_med_gm, sigma, spectrumResult, pds, i>>

InprocNext ==
    \/ StartJVM \/ StartJVMFails
    \/ InitHazMat \/ InitHazMatFails
    \/ SetParams
    \/ CallMean \/ CallMeanFails
    \/ CallSpectrum \/ CallSpectrumFails
    \/ ForPrint \/ PrintTriple

(***************************************************************************)
(* The run.                                                                *)
(***************************************************************************)
Init ==
    /\ script \in {"batch", "inproc"}
    /\ pc = IF script = "batch" THEN "open" ELSE "startJVM"
    /\ exc = ""
    /\ exitCode = -1
    /\ bound = {}
    /\ fileExists \in (IF script = "batch" THEN BOOLEAN ELSE {FALSE})
    /\ csv \in (IF script = "batch" /\ fileExists THEN CsvFiles ELSE {<<>>})
    /\ posts = <<>>
    /\ inputs = <<>> /\ svcResponse = <<>> /\ response = <<>>
    /\ request = <<>> /\ gmms = <<>> /\ input = <<>>
    /\ means = <<>> /\ sigmas = <<>> /\ data = <<>>
    /\ xMeans = <<>> /\ yMeans = <<>> /\ xSigmas = <<>> /\ ySigmas = <<>>
    /\ ri = 0 /\ mi = 0 /\ si = 0
    /\ calls = <<>> /\ hazMat = 0 /\ gmmparams = <<>>
    /\ ln_med_gm = <<>> /\ sigma = <<>> /\ spectrumResult = <<>>
    /\ pds = <<>> /\ i = 0 /\ printed = <<>>

Next == BatchNext \/ InprocNext

Spec == Init /\ [][Next]_vars

(***************************************************************************)
(* Vocabulary of the properties.                                           *)
(***************************************************************************)
\* the names the extraction loop binds series data to
SeriesNames == {"xMeans", "yMeans", "xSigmas", "ySigmas"}
\* the statements of the extraction loop's body and its two inner loops
LoopPcs == {"for", "request", "gmms", "input",
            "meansIter", "meansFor", "meansData", "meansXs", "meansYs",
            "sigmasIter", "sigmasFor", "sigmasData", "sigmasXs", "sigmasYs"}
\* the POST returned and was decoded
Decoded == script = "batch" /\ "svcResponse" \in bound
StatusIs(s) == Decoded /\ HasKey(svcResponse, "status") /\ svcResponse.status = s
HasPayload == Decoded /\ HasKey(svcResponse, "response")
Last(q) == q[Len(q)]
Complete(result) ==
    HasKey(result, "request") /\ HasKey(result, "means") /\ HasKey(result, "sigmas")
\* the operations called through the bridge so far, in order
Ops == [k \in 1..Len(calls) |-> calls[k].op]
IsPrefix(p, q) == Len(p) <= Len(q) /\ \A k \in 1..Len(p) : p[k] = q[k]
\* the (period, mean, sigma) lines printed so far
Triples == SelectSeq(printed, LAMBDA line : line.kind = "triple")

C2_AllRowsHeld ==
    (/\ StatusIs("success") /\ HasPayload /\ pc = "done"
     /\ Len(svcResponse.response) = Len(ValueRows(inputs)))
    => \A r \in 1..Len(svcResponse.response) :
          \E m \in 1..Len(svcResponse.response[r].means.data) :
             /\ yMeans = svcResponse.response[r].means.data[m].data.ys
             /\ xMeans = svcResponse.response[r].means.data[m].data.xs

(***************************************************************************)
(* C2 amended: the loop visits the N per-row results in order, the i-th    *)
(* iteration reading the i-th result, and ends after exactly N iterations; *)
(* no sequence is kept, so after the loop the series variables hold only   *)
(* the series read last, those of the N-th result.                         *)
(***************************************************************************)
C2_RowsVisitedInOrder ==
    (/\ StatusIs("success") /\ HasPayload
     /\ Len(svcResponse.response) = Len(ValueRows(inputs)))
    => LET rs == svcResponse.response
       IN  /\ pc \in LoopPcs \ {"for"} =>
                /\ ri \in 1..Len(rs)
                /\ response = rs[ri]
           /\ pc = "for" => ri \in 0..Len(rs) /\ (ri > 0 => response = rs[ri])
           /\ pc = "done" =>
                /\ ri = Len(rs)
                /\ \A r \in 1..Len(rs) : Complete(rs[r])
                /\ Len(rs) > 0 =>
                     /\ response = Last(rs)
                     /\ yMeans = Last(Last(rs).means.data).data.ys
                     /\ ySigmas = Last(Last(rs).sigmas.data).data.ys

C2_Witness ==
    /\ StatusIs("success") /\ HasPayload /\ pc = "done"
    /\ Len(svcResponse.response) = Len(ValueRows(inputs))
    /\ Len(svcResponse.response) = MaxRows
    /\ Len(yMeans) > 0

(***************************************************************************)
(* C3.  A run issues at most one POST; after a transport failure or an     *)
(* undecodable body the run has ended, with that one POST issued, nothing  *)
(* decoded and the extraction never entered.                               *)
(***************************************************************************)
C3_AtMostOnePost ==
    /\ Len(posts) <= 1
    /\ exc \in {"ConnectionError", "JSONDecodeError"} =>
         /\ pc = "raised"
         /\ Len(posts) = 1
         /\ ~Decoded
         /\ bound \cap (SeriesNames \cup {"response"}) = {}

C3_Witness ==
    /\ exc = "ConnectionError" /\ pc = "raised" /\ Len(posts) = 1

(***************************************************************************)
(* C4 as stated: when a per-row result of a non-error reply lacks 'means'  *)
(* or 'sigmas', the run fails having extracted no series data for any row. *)
(***************************************************************************)
C4_NoPartialExtraction ==
    (/\ HasPayload /\ ~StatusIs("error") /\ HasKey(svcResponse, "status")
     /\ \E r \in 1..Len(svcResponse.response) :
           ~HasKey(svcResponse.response[r], "means")
           \/ ~HasKey(svcResponse.response[r], "sigmas"))
    => /\ pc # "done"
       /\ pc = "raised" => bound \cap SeriesNames = {}

(***************************************************************************)
(* C4 amended: when a per-row result of a non-error reply lacks 'means' or *)
(* 'sigmas', the run never completes: it fails with KeyError at the first  *)
(* defective result.  Nothing is validated beforehand, so the series of    *)
(* the results before it have been read by then, and so have the means of  *)
(* the defective result when it is 'sigmas' that is missing; nothing is    *)
(* read from the results after it.                                         *)
(***************************************************************************)
C4_FailsAtDefectiveRow ==
    (/\ HasPayload /\ ~StatusIs("error") /\ HasKey(svcResponse, "status")
     /\ \E r \in 1..Len(svcResponse.response) :
           ~HasKey(svcResponse.response[r], "means")
           \/ ~HasKey(svcResponse.response[r], "sigmas"))
    => LET rs == svcResponse.response
           first == CHOOSE r \in 1..Len(rs) :
                       /\ ~Complete(rs[r])
                       /\ \A q \in 1..(r - 1) : Complete(rs[q])
       IN  /\ pc # "done"
           /\ ri <= first
           /\ pc = "raised" =>
                /\ exc = "KeyError"
                /\ ri = first
                /\ response = rs[first]
                /\ (first > 1 /\ Len(rs[first - 1].means.data) > 0) =>
                      SeriesNames \subseteq bound
                /\ (HasKey(rs[first], "request") /\ HasKey(rs[first], "means")
                      /\ Len(rs[first].means.data) > 0) =>
                      /\ {"xMeans", "yMeans"} \subseteq bound
                      /\ yMeans = Last(rs[first].means.data).data.ys

C4_Witness ==
    /\ HasPayload /\ StatusIs("success")
    /\ pc = "raised" /\ exc = "KeyError"
    /\ ri = 2
    /\ ~HasKey(response, "sigmas")
    /\ SeriesNames \subseteq bound
    /\ Len(yMeans) > 0
    /\ yMeans = Last(response.means.data).data.ys

(***************************************************************************)
(* C5 as stated: when a value record of the file has a column count other  *)
(* than the header's, loading fails with an input-format error and no POST *)
(* is issued.                                                              *)
(***************************************************************************)
C5_MalformedNeverPosted ==
    (script = "batch" /\ fileExists /\ Malformed(csv)) =>
        /\ posts = <<>>
        /\ pc = "raised" => exc = "InputFormatError"

(***************************************************************************)
(* C5 amended: the client does not parse the table.  A file with a value   *)
(* record whose column count differs from the header's is read whole and   *)
(* sent unchanged as the body of the POST; loading fails only when the     *)
(* file cannot be opened.                                                  *)
(***************************************************************************)
C5_MalformedIsPosted ==
    /\ (script = "batch" /\ fileExists /\ Malformed(csv)) =>
          /\ pc \notin {"open", "read", "close", "post"} =>
                /\ Len(posts) = 1
                /\ posts[1].data = csv
          /\ exc \notin {"InputFormatError", "FileNotFoundError"}
    /\ (script = "batch" /\ ~fileExists) =>
          /\ pc \in {"open", "raised"}
          /\ pc = "raised" => exc = "FileNotFoundError"
          /\ posts = <<>>

C5_Witness ==
    /\ script = "batch" /\ Malformed(csv)
    /\ Len(posts) = 1 /\ Malformed(posts[1].data)
    /\ pc = "done"

(***************************************************************************)
(* C6.  The series the batch client extracts have xs and ys of one length, *)
(* the same for the 'means' and the 'sigmas' series, with ascending xs;    *)
(* the in-process client prints exactly len(periods) triples, the i-th     *)
(* pairing element i of periods, means and sigmas, and never runs past an  *)
(* array's end.                                                            *)
(***************************************************************************)
Ascending(xs) == \A j, k \in 1..Len(xs) : j < k => xs[j] < xs[k]

SelectedModels == {"AB_06_PRIME", "CAMPBELL_03", "FRANKEL_96"}
Cells(content) == UNION {{content[r][c] : c \in 1..Len(content[r])} :
                           r \in 1..Len(content)}

C7_BodyIsFileContent ==
    \A k \in 1..Len(posts) :
       /\ posts[k].data = csv
       /\ DOMAIN posts[k].params = {"gmm"}
       /\ Len(posts[k].params.gmm) = Cardinality(SelectedModels)
       /\ {posts[k].params.gmm[j] : j \in 1..Len(posts[k].params.gmm)} = SelectedModels
       /\ Cells(posts[k].data) \cap SelectedModels = {}
       /\ posts[k].url = <<"http://localhost:8080", "/nshmp-haz-ws/gmm/spectra">>

C7_Witness ==
    /\ Len(posts) = 1
    /\ "null" \in Cells(posts[1].data)
    /\ Malformed(posts[1].data)

(***************************************************************************)
(* C8 as stated: a decoded reply without a 'response' field is stopped by  *)
(* the check and never reaches line 69, which indexes                      *)
(* svcResponse['response'].                                                *)
(***************************************************************************)
C8_NoResponseFieldStopsAtCheck ==
    (Decoded /\ ~HasKey(svcResponse, "response")) =>
        /\ pc # "iter"
        /\ exc = "KeyError" => ~HasKey(svcResponse, "status")

(***************************************************************************)
(* C9 as stated: after a per-row result with M means series and M sigmas   *)
(* series has been processed, every one of its M means series is held by   *)
(* the client (none overwritten by a later one of the same row).           *)
(***************************************************************************)
C9_AllSeriesHeld ==
    (script = "batch" /\ pc = "sigmasFor" /\ si = Len(response.sigmas.data))
    => \A m \in 1..Len(response.means.data) :
          yMeans = response.means.data[m].data.ys

(***************************************************************************)
(* C9 amended: the two inner loops visit the M means series and then the M *)
(* sigmas series of a row in order, each rebinding the same variables: the *)
(* k-th means series is held only until the (k+1)-th is read, and while    *)
(* the sigmas series are read only the last (M-th) means series is held,   *)
(* so only the last means series and the last sigmas series of the row     *)
(* remain together after it.                                               *)
(***************************************************************************)
C9_LastSeriesHeld ==
    script = "batch" =>
        /\ (pc = "meansFor" /\ mi > 0) =>
              /\ mi <= Len(response.means.data)
              /\ means = response.means.data[mi]
              /\ xMeans = means.data.xs /\ yMeans = means.data.ys
        /\ (pc \in {"sigmasIter", "sigmasFor", "sigmasData", "sigmasXs",
                   "sigmasYs"}) =>
              /\ mi = Len(response.means.data)
              /\ mi > 0 => yMeans = Last(response.means.data).data.ys
        /\ (pc = "sigmasFor" /\ si > 0) =>
              /\ si <= Len(response.sigmas.data)
              /\ sigmas = response.sigmas.data[si]
              /\ xSigmas = sigmas.data.xs /\ ySigmas = sigmas.data.ys
        /\ (pc = "for" /\ ri > 0 /\ Len(response.sigmas.data) > 0) =>
              /\ si = Len(response.sigmas.data)
              /\ ySigmas = Last(response.sigmas.data).data.ys
              /\ yMeans = Last(response.means.data).data.ys

C9_Witness ==
    /\ script = "batch" /\ pc = "for" /\ ri > 0
    /\ Len(response.means.data) > 1
    /\ Len(yMeans) > 0
    /\ yMeans # response.means.data[1].data.ys
    /\ yMeans = Last(response.means.data).data.ys

(***************************************************************************)
(* C10.  In the in-process client the calls through the bridge are, in     *)
(* order, startJVM, HazMat.init, gmmMean, gmmSpectrum, each at most once;  *)
(* both calculations go to the one instance init returned, with the same   *)
(* model identifier and the same parameter object, whose fields are the    *)
(* same at both calls.                                                     *)
(***************************************************************************)
C10_CallOrder ==
    script = "inproc" =>
        /\ IsPrefix(Ops, <<"startJVM", "init", "gmmMean", "gmmSpectrum">>)
        /\ Cardinality(Instances) <= 1
        /\ \A k \in 1..Len(calls) :
              calls[k].op \in {"gmmMean", "gmmSpectrum"} =>
                 /\ calls[k].inst \in Instances
                 /\ calls[k].inst = hazMat
                 /\ calls[k].gmm = "ASK_14"
                 /\ calls[k].params = gmmparams
                 /\ calls[k].params = ParamFields
        /\ \A j, k \in 1..Len(calls) :
              (calls[j].op = "gmmMean" /\ calls[k].op = "gmmSpectrum") =>
                 /\ j < k
                 /\ calls[j].inst = calls[k].inst
                 /\ calls[j].gmm = calls[k].gmm
                 /\ calls[j].params = calls[k].params

C10_Witness ==
    /\ script = "inproc" /\ pc = "done"
    /\ Ops = <<"startJVM", "init", "gmmMean", "gmmSpectrum">>
    /\ Len(Triples) > 0

====
